---- MODULE Spec2Model ----
(***************************************************************************)
(* Model of lotus/python/session.py: the InferenceSession facade around    *)
(* the native engine C.InferenceSession.                                   *)
(*                                                                         *)
(* Python values are records [type, val]: type is the runtime type name    *)
(* that isinstance() and truthiness look at, val the payload.  An object   *)
(* attribute is <<>> while it is not set and <<v>> once it holds v.        *)
(* A facade call that delegates to the engine is split at the blocking     *)
(* engine call: XCall runs the Python code up to the engine call,          *)
(* XReturn runs from the engine's return to the end of the method.         *)
(*                                                                         *)
(* Callers get an instance from the expression InferenceSession(...): they *)
(* hold a reference once __init__ has returned, and none when it raised.   *)
(* The methods are therefore called on instances whose lifecycle is        *)
(* "ready" only.  The facade takes no lock, and the engine call may give   *)
(* up the interpreter lock, so calls of different threads interleave at    *)
(* the engine calls.                                                       *)
(***************************************************************************)
EXTENDS Naturals, Sequences, FiniteSets

VARIABLES
    lifecycle,      \* per instance: "new", "initializing", "ready", "failed"
    _sess,          \* self._sess: the engine handle
    _inputs_meta,   \* self._inputs_meta
    _outputs_meta,  \* self._outputs_meta
    _model_meta,    \* self._model_meta
    frame           \* per thread of control: the facade call it is in or made last

vars == <<lifecycle, _sess, _inputs_meta, _outputs_meta, _model_meta, frame>>

-----------------------------------------------------------------------------
(* Bounds *)

NumSessions == 1
NumThreads == 2

Sessions == 1..NumSessions
Threads == 1..NumThreads

-----------------------------------------------------------------------------
(* Python values *)

NoneVal == [type |-> "NoneType", val |-> "None"]
Str(s) == [type |-> "str", val |-> s]
Bytes(b) == [type |-> "bytes", val |-> b]
Tuple(q) == [type |-> "tuple", val |-> q]
List(q) == [type |-> "list", val |-> q]
Dict(f) == [type |-> "dict", val |-> f]
Obj(ty, a) == [type |-> ty, val |-> a]
Exc(ty, a) == Obj(ty, a)

Unset == <<>>
Val(v) == <<v>>
IsSet(a) == Len(a) = 1
Get(a) == a[1]

\* isinstance(v, ty)
IsInstance(v, ty) == v.type = ty

\* bool(v): None and empty containers are falsy, other objects truthy
Truthy(v) ==
    CASE v.type = "NoneType" -> FALSE
      [] v.type \in {"tuple", "list"} -> Len(v.val) > 0
      [] v.type = "dict" -> DOMAIN v.val # {}
      [] OTHER -> TRUE

\* len(v) of a dict or a list
PyLen(v) == IF v.type = "dict" THEN Cardinality(DOMAIN v.val) ELSE Len(v.val)

Range(q) == {q[i] : i \in DOMAIN q}

-----------------------------------------------------------------------------
(* The native engine C.InferenceSession, as the facade sees it *)

Models == {"m1", "m2"}

Files == [p \in {"m1.onnx"} |-> "m1"]

NodeArg(n) == [name |-> n, type |-> "tensor(float)"]

ModelInputs(m) == IF m = "m1" THEN <<NodeArg("a"), NodeArg("b")>> ELSE <<NodeArg("a")>>
ModelOutputs(m) == IF m = "m1" THEN <<NodeArg("z"), NodeArg("y")>> ELSE <<NodeArg("y")>>
ModelMeta(m) == [producer_name |-> "lotus", graph_name |-> m]

\* C.get_session_initializer()
SessionInitializer == [type |-> "SessionObjectInitializer", val |-> "default"]
SessionOptions(v) == [type |-> "SessionOptions", val |-> v]

\* C.InferenceSession(options, initializer)
NewEngine(options) ==
    [options |-> options, loaded |-> FALSE, model |-> "none",
     profiling |-> options.val = "profiling"]

EngineInputsMeta(e) == IF e.loaded THEN ModelInputs(e.model) ELSE <<>>
EngineOutputsMeta(e) == IF e.loaded THEN ModelOutputs(e.model) ELSE <<>>
EngineModelMeta(e) == IF e.loaded THEN ModelMeta(e.model) ELSE [producer_name |-> "", graph_name |-> ""]

EngineErrors == {"FAIL", "INVALID_ARGUMENT"}
EngineError(code) == Exc("EngineError", code)

Returned(v) == [kind |-> "return", val |-> v]
Raised(x) == [kind |-> "raise", val |-> x]
NoOutcome == [kind |-> "none", val |-> NoneVal]

\* the model a load call's argument denotes, "none" if it denotes none
ModelOf(op, arg) ==
    CASE op = "load_model" -> IF arg \in DOMAIN Files THEN Files[arg] ELSE "none"
      [] OTHER -> IF arg \in Models THEN arg ELSE "none"

\* engine.load_model / read_bytes / load_model_no_init: the possible outcomes,
\* each the engine afterwards and what the call returned or raised
EngineLoad(e, op, arg) ==
    LET m == ModelOf(op, arg)
    IN  {[engine |-> e, outcome |-> Raised(EngineError(c))] : c \in EngineErrors}
        \cup (IF m = "none" THEN {}
              ELSE {[engine |-> [e EXCEPT !.loaded = TRUE, !.model = m],
                     outcome |-> Returned(NoneVal)]})

\* engine.run(output_names, input_feed, run_options)
EngineRun(e, output_names, input_feed, run_options) ==
    LET namesOk ==
            /\ e.loaded
            /\ DOMAIN input_feed.val = {d.name : d \in Range(ModelInputs(e.model))}
            /\ Range(output_names.val) \subseteq {d.name : d \in Range(ModelOutputs(e.model))}
    IN  IF ~namesOk
        THEN {[engine |-> e, outcome |-> Raised(EngineError("INVALID_ARGUMENT"))]}
        ELSE {[engine |-> e, outcome |-> Raised(EngineError("FAIL"))],
              [engine |-> e,
               outcome |-> Returned(List([i \in DOMAIN output_names.val |->
                                            [of |-> output_names.val[i]]]))]}

\* engine.end_profiling()
EngineEndProfiling(e) ==
    {[engine |-> e, outcome |-> Raised(EngineError("FAIL"))]}
    \cup (IF e.profiling
          THEN {[engine |-> [e EXCEPT !.profiling = FALSE],
                 outcome |-> Returned(Str("profile.json"))]}
          ELSE {})

Pending == [kind |-> "pending", val |-> NoneVal]

\* an engine call as recorded in a frame's trace: the operation, its arguments and,
\* once the engine is back, what it returned or raised
Event(op, args) == [op |-> op, args |-> args, result |-> Pending]
Read(op, v) == [op |-> op, args |-> <<>>, result |-> Returned(v)]
Done(ev, outcome) == [ev EXCEPT !.result = outcome]

-----------------------------------------------------------------------------
(* Frames *)

IdleFrame ==
    [pc |-> "idle", op |-> "none", self |-> 0, args |-> <<>>, trace |-> <<>>,
     outcome |-> NoOutcome]

Called(op, s, args, trace, pc, outcome) ==
    [pc |-> pc, op |-> op, self |-> s, args |-> args, trace |-> trace,
     outcome |-> outcome]

-----------------------------------------------------------------------------
(* InferenceSession.__init__ *)

\* lines 24-29: the options the engine is created with
EngineOptionsFor(sess_options) ==
    IF Truthy(sess_options) THEN sess_options ELSE SessionInitializer

\* LoadDispatch with the second branch issuing the first branch's call
LoadDispatchSameCall(path_or_bytes) ==
    IF IsInstance(path_or_bytes, "str") \/ IsInstance(path_or_bytes, "bytes")
    THEN [kind |-> "call", op |-> "load_model", arg |-> path_or_bytes.val]
    ELSE IF IsInstance(path_or_bytes, "tuple")
    THEN IF Len(path_or_bytes.val) > 0
         THEN [kind |-> "call", op |-> "load_model_no_init", arg |-> path_or_bytes.val[1]]
         ELSE [kind |-> "raise", op |-> "IndexError", arg |-> "tuple index out of range"]
    ELSE [kind |-> "raise", op |-> "TypeError", arg |-> path_or_bytes.type]

\* LoadDispatch with the third branch testing isinstance(path_or_bytes, (tuple, list))
LoadDispatchAnySequence(path_or_bytes) ==
    IF IsInstance(path_or_bytes, "str")
    THEN [kind |-> "call", op |-> "load_model", arg |-> path_or_bytes.val]
    ELSE IF IsInstance(path_or_bytes, "bytes")
    THEN [kind |-> "call", op |-> "read_bytes", arg |-> path_or_bytes.val]
    ELSE IF IsInstance(path_or_bytes, "tuple") \/ IsInstance(path_or_bytes, "list")
    THEN IF Len(path_or_bytes.val) > 0
         THEN [kind |-> "call", op |-> "load_model_no_init", arg |-> path_or_bytes.val[1]]
         ELSE [kind |-> "raise", op |-> "IndexError", arg |-> "tuple index out of range"]
    ELSE [kind |-> "raise", op |-> "TypeError", arg |-> path_or_bytes.type]

\* lines 31-39: the load call chosen by the source's runtime type, or the raise
LoadDispatch(path_or_bytes) ==
    IF IsInstance(path_or_bytes, "str")
    THEN [kind |-> "call", op |-> "load_model", arg |-> path_or_bytes.val]
    ELSE IF IsInstance(path_or_bytes, "bytes")
    THEN [kind |-> "call", op |-> "read_bytes", arg |-> path_or_bytes.val]
    ELSE IF IsInstance(path_or_bytes, "tuple")
    THEN IF Len(path_or_bytes.val) > 0
         THEN [kind |-> "call", op |-> "load_model_no_init", arg |-> path_or_bytes.val[1]]
         ELSE [kind |-> "raise", op |-> "IndexError", arg |-> "tuple index out of range"]
    ELSE [kind |-> "raise", op |-> "TypeError", arg |-> path_or_bytes.type]

\* lines 19-39 on a fresh instance (instances are numbered in the order they are
\* created): create the engine, then issue the load call or raise
InitCall(t, s, path_or_bytes, sess_options) ==
    /\ frame[t].pc = "idle"
    /\ lifecycle[s] = "new"
    /\ \A r \in Sessions : r < s => lifecycle[r] # "new"
    /\ LET options == EngineOptionsFor(sess_options)
           d == LoadDispatch(path_or_bytes)
           created == Done(Event("InferenceSession", <<options>>), Returned(NoneVal))
           args == <<path_or_bytes, sess_options>>
       IN  /\ _sess' = [_sess EXCEPT ![s] = Val(NewEngine(options))]
           /\ IF d.kind = "call"
              THEN /\ lifecycle' = [lifecycle EXCEPT ![s] = "initializing"]
                   /\ frame' = [frame EXCEPT ![t] =
                          Called("__init__", s, args,
                                 <<created, Event(d.op, <<d.arg>>)>>, "load", Pending)]
              ELSE /\ lifecycle' = [lifecycle EXCEPT ![s] = "failed"]
                   /\ frame' = [frame EXCEPT ![t] =
                          Called("__init__", s, args, <<created>>, "idle",
                                 Raised(Exc(d.op, d.arg)))]
    /\ UNCHANGED <<_inputs_meta, _outputs_meta, _model_meta>>

\* InitReturn with the load call's exception caught and ignored
InitReturnSwallow(t) ==
    /\ frame[t].pc = "load"
    /\ LET s == frame[t].self
           call == frame[t].trace[Len(frame[t].trace)]
       IN  \E r \in EngineLoad(Get(_sess[s]), call.op, call.args[1]) :
             /\ _sess' = [_sess EXCEPT ![s] = Val(r.engine)]
             /\ _inputs_meta' = [_inputs_meta EXCEPT ![s] = Val(EngineInputsMeta(r.engine))]
             /\ _outputs_meta' = [_outputs_meta EXCEPT ![s] = Val(EngineOutputsMeta(r.engine))]
             /\ _model_meta' = [_model_meta EXCEPT ![s] = Val(EngineModelMeta(r.engine))]
             /\ lifecycle' = [lifecycle EXCEPT ![s] = "ready"]
             /\ frame' = [frame EXCEPT
                    ![t].pc = "idle",
                    ![t].trace = <<@[1], Done(call, r.outcome),
                                   Read("inputs_meta", List(EngineInputsMeta(r.engine))),
                                   Read("outputs_meta", List(EngineOutputsMeta(r.engine))),
                                   Read("model_meta", Obj("ModelMetadata", EngineModelMeta(r.engine)))>>,
                    ![t].outcome = Returned(NoneVal)]

\* lines 32/34/37 returning or raising, then lines 40-42
InitReturn(t) ==
    /\ frame[t].pc = "load"
    /\ LET s == frame[t].self
           call == frame[t].trace[Len(frame[t].trace)]
       IN  \E r \in EngineLoad(Get(_sess[s]), call.op, call.args[1]) :
             /\ _sess' = [_sess EXCEPT ![s] = Val(r.engine)]
             /\ IF r.outcome.kind = "return"
                THEN /\ _inputs_meta' = [_inputs_meta EXCEPT ![s] = Val(EngineInputsMeta(r.engine))]
                     /\ _outputs_meta' = [_outputs_meta EXCEPT ![s] = Val(EngineOutputsMeta(r.engine))]
                     /\ _model_meta' = [_model_meta EXCEPT ![s] = Val(EngineModelMeta(r.engine))]
                     /\ lifecycle' = [lifecycle EXCEPT ![s] = "ready"]
                     /\ frame' = [frame EXCEPT
                            ![t].pc = "idle",
                            ![t].trace = <<@[1], Done(call, r.outcome),
                                           Read("inputs_meta", List(EngineInputsMeta(r.engine))),
                                           Read("outputs_meta", List(EngineOutputsMeta(r.engine))),
                                           Read("model_meta", Obj("ModelMetadata", EngineModelMeta(r.engine)))>>,
                            ![t].outcome = Returned(NoneVal)]
                ELSE /\ lifecycle' = [lifecycle EXCEPT ![s] = "failed"]
                     /\ frame' = [frame EXCEPT ![t].pc = "idle",
                                               ![t].trace = <<@[1], Done(call, r.outcome)>>,
                                               ![t].outcome = r.outcome]
                     /\ UNCHANGED <<_inputs_meta, _outputs_meta, _model_meta>>

-----------------------------------------------------------------------------
(* Accessors *)

\* lines 44-46
GetInputs(t, s) ==
    /\ frame[t].pc = "idle"
    /\ lifecycle[s] = "ready"
    /\ frame' = [frame EXCEPT ![t] =
           Called("get_inputs", s, <<>>, <<>>, "idle", Returned(List(Get(_inputs_meta[s]))))]
    /\ UNCHANGED <<lifecycle, _sess, _inputs_meta, _outputs_meta, _model_meta>>

\* lines 48-50
GetOutputs(t, s) ==
    /\ frame[t].pc = "idle"
    /\ lifecycle[s] = "ready"
    /\ frame' = [frame EXCEPT ![t] =
           Called("get_outputs", s, <<>>, <<>>, "idle", Returned(List(Get(_outputs_meta[s]))))]
    /\ UNCHANGED <<lifecycle, _sess, _inputs_meta, _outputs_meta, _model_meta>>

\* lines 52-54
GetModelMeta(t, s) ==
    /\ frame[t].pc = "idle"
    /\ lifecycle[s] = "ready"
    /\ frame' = [frame EXCEPT ![t] =
           Called("get_modelmeta", s, <<>>, <<>>, "idle",
                  Returned(Obj("ModelMetadata", Get(_model_meta[s]))))]
    /\ UNCHANGED <<lifecycle, _sess, _inputs_meta, _outputs_meta, _model_meta>>

-----------------------------------------------------------------------------
(* InferenceSession.run *)

\* CountOk with the test num_inputs < num_required_inputs
CountOkAtLeast(inputs_meta, input_feed) ==
    PyLen(input_feed) >= Len(inputs_meta)

\* CountOk with the feed's names compared with the declared names
CountOkNames(inputs_meta, input_feed) ==
    DOMAIN input_feed.val = {inputs_meta[i].name : i \in DOMAIN inputs_meta}

\* CountOk with the test num_inputs > num_required_inputs
CountOkAtMost(inputs_meta, input_feed) ==
    PyLen(input_feed) <= Len(inputs_meta)

\* lines 69-71: the feed has as many entries as there are input descriptors
CountOk(inputs_meta, input_feed) ==
    PyLen(input_feed) = Len(inputs_meta)

\* ResolveOutputNames with the test output_names is None
ResolveOutputNamesNoneOnly(output_names, outputs_meta) ==
    IF output_names.type = "NoneType"
    THEN List([i \in DOMAIN outputs_meta |-> outputs_meta[i].name])
    ELSE output_names

\* lines 73-74
ResolveOutputNames(output_names, outputs_meta) ==
    IF ~Truthy(output_names)
    THEN List([i \in DOMAIN outputs_meta |-> outputs_meta[i].name])
    ELSE output_names

\* RunCall keeping in self._outputs_meta only the descriptors of the resolved names
RunCallNarrowing(t, s, output_names, input_feed, run_options) ==
    /\ frame[t].pc = "idle"
    /\ lifecycle[s] = "ready"
    /\ LET args == <<output_names, input_feed, run_options>>
           num_required_inputs == Len(Get(_inputs_meta[s]))
           num_inputs == PyLen(input_feed)
           resolved == ResolveOutputNames(output_names, Get(_outputs_meta[s]))
       IN  IF ~CountOk(Get(_inputs_meta[s]), input_feed)
           THEN /\ frame' = [frame EXCEPT ![t] =
                       Called("run", s, args, <<>>, "idle",
                              Raised(Exc("ValueError", <<num_required_inputs, num_inputs>>)))]
                /\ UNCHANGED _outputs_meta
           ELSE /\ frame' = [frame EXCEPT ![t] =
                       Called("run", s, args,
                              <<Event("run", <<resolved, input_feed, run_options>>)>>,
                              "run", Pending)]
                /\ _outputs_meta' = [_outputs_meta EXCEPT ![s] =
                       Val(SelectSeq(Get(@), LAMBDA d : d.name \in Range(resolved.val)))]
    /\ UNCHANGED <<lifecycle, _sess, _inputs_meta, _model_meta>>

\* lines 56-75 up to the engine call
RunCall(t, s, output_names, input_feed, run_options) ==
    /\ frame[t].pc = "idle"
    /\ lifecycle[s] = "ready"
    /\ LET args == <<output_names, input_feed, run_options>>
           num_required_inputs == Len(Get(_inputs_meta[s]))
           num_inputs == PyLen(input_feed)
       IN  IF ~CountOk(Get(_inputs_meta[s]), input_feed)
           THEN frame' = [frame EXCEPT ![t] =
                    Called("run", s, args, <<>>, "idle",
                           Raised(Exc("ValueError", <<num_required_inputs, num_inputs>>)))]
           ELSE frame' = [frame EXCEPT ![t] =
                    Called("run", s, args,
                           <<Event("run", <<ResolveOutputNames(output_names, Get(_outputs_meta[s])),
                                            input_feed, run_options>>)>>,
                           "run", Pending)]
    /\ UNCHANGED <<lifecycle, _sess, _inputs_meta, _outputs_meta, _model_meta>>

\* RunReturn with one more attempt after the engine's first failure
RunReturnRetry(t) ==
    /\ frame[t].pc = "run"
    /\ LET s == frame[t].self
           call == frame[t].trace[Len(frame[t].trace)]
       IN  \E r \in EngineRun(Get(_sess[s]), call.args[1], call.args[2], call.args[3]) :
             /\ _sess' = [_sess EXCEPT ![s] = Val(r.engine)]
             /\ IF r.outcome.kind = "raise" /\ Len(frame[t].trace) = 1
                THEN frame' = [frame EXCEPT
                         ![t].trace = <<Done(call, r.outcome), Event("run", call.args)>>]
                ELSE frame' = [frame EXCEPT
                         ![t].pc = "idle",
                         ![t].trace = [@ EXCEPT ![Len(@)] = Done(call, r.outcome)],
                         ![t].outcome = r.outcome]
    /\ UNCHANGED <<lifecycle, _inputs_meta, _outputs_meta, _model_meta>>

\* line 75: the engine's run returns or raises, and so does the method
RunReturn(t) ==
    /\ frame[t].pc = "run"
    /\ LET s == frame[t].self
           call == frame[t].trace[Len(frame[t].trace)]
       IN  \E r \in EngineRun(Get(_sess[s]), call.args[1], call.args[2], call.args[3]) :
             /\ _sess' = [_sess EXCEPT ![s] = Val(r.engine)]
             /\ frame' = [frame EXCEPT ![t].pc = "idle",
                                       ![t].trace = <<Done(call, r.outcome)>>,
                                       ![t].outcome = r.outcome]
    /\ UNCHANGED <<lifecycle, _inputs_meta, _outputs_meta, _model_meta>>

-----------------------------------------------------------------------------
(* InferenceSession.end_profiling *)

\* lines 77-79 up to the engine call
EndProfilingCall(t, s) ==
    /\ frame[t].pc = "idle"
    /\ lifecycle[s] = "ready"
    /\ frame' = [frame EXCEPT ![t] =
           Called("end_profiling", s, <<>>, <<Event("end_profiling", <<>>)>>,
                  "end_profiling", Pending)]
    /\ UNCHANGED <<lifecycle, _sess, _inputs_meta, _outputs_meta, _model_meta>>

\* line 79: the engine's end_profiling returns or raises, and so does the method
EndProfilingReturn(t) ==
    /\ frame[t].pc = "end_profiling"
    /\ LET s == frame[t].self
           call == frame[t].trace[Len(frame[t].trace)]
       IN  \E r \in EngineEndProfiling(Get(_sess[s])) :
             /\ _sess' = [_sess EXCEPT ![s] = Val(r.engine)]
             /\ frame' = [frame EXCEPT ![t].pc = "idle",
                                       ![t].trace = <<Done(call, r.outcome)>>,
                                       ![t].outcome = r.outcome]
    /\ UNCHANGED <<lifecycle, _inputs_meta, _outputs_meta, _model_meta>>

-----------------------------------------------------------------------------
(* Callers' arguments *)

Sources ==
    {Str("m1.onnx"), Bytes("m2"), Tuple(<<"m1">>), Tuple(<<>>), List(<<"m1">>), NoneVal}

SessOptions == {NoneVal, SessionOptions("profiling")}

OutputNames == {NoneVal, List(<<>>), List(<<"y">>), List(<<"y", "z">>), List(<<"w">>)}

FeedKeys == {"a", "b", "x"}
Feeds == {Dict([k \in K |-> "tensor"]) : K \in SUBSET FeedKeys}

RunOptions == {NoneVal, [type |-> "RunOptions", val |-> "tag"]}

-----------------------------------------------------------------------------
(* Specifications *)

InitObjects ==
    /\ lifecycle = [s \in Sessions |-> "new"]
    /\ _sess = [s \in Sessions |-> Unset]
    /\ _inputs_meta = [s \in Sessions |-> Unset]
    /\ _outputs_meta = [s \in Sessions |-> Unset]
    /\ _model_meta = [s \in Sessions |-> Unset]

\* one thread of control
Init ==
    /\ InitObjects
    /\ frame = [t \in {1} |-> IdleFrame]

Next ==
    \/ \E t \in DOMAIN frame, s \in Sessions, src \in Sources, o \in SessOptions :
           InitCall(t, s, src, o)
    \/ \E t \in DOMAIN frame : InitReturn(t)
    \/ \E t \in DOMAIN frame, s \in Sessions : GetInputs(t, s)
    \/ \E t \in DOMAIN frame, s \in Sessions : GetOutputs(t, s)
    \/ \E t \in DOMAIN frame, s \in Sessions : GetModelMeta(t, s)
    \/ \E t \in DOMAIN frame, s \in Sessions, o \in OutputNames, f \in Feeds, r \in RunOptions :
           RunCall(t, s, o, f, r)
    \/ \E t \in DOMAIN frame : RunReturn(t)
    \/ \E t \in DOMAIN frame, s \in Sessions : EndProfilingCall(t, s)
    \/ \E t \in DOMAIN frame : EndProfilingReturn(t)

Spec == Init /\ [][Next]_vars

\* several threads of control sharing the instances
InitThreads ==
    /\ InitObjects
    /\ frame = [t \in Threads |-> IdleFrame]

ThreadSources == {Str("m1.onnx"), NoneVal}
ThreadFeeds == {Dict([k \in K |-> "tensor"]) : K \in {{"a", "b"}, {"a", "x"}, {"a"}}}

NextThreads ==
    \/ \E t \in DOMAIN frame, s \in Sessions, src \in ThreadSources :
           InitCall(t, s, src, NoneVal)
    \/ \E t \in DOMAIN frame : InitReturn(t)
    \/ \E t \in DOMAIN frame, s \in Sessions : GetInputs(t, s)
    \/ \E t \in DOMAIN frame, s \in Sessions : GetOutputs(t, s)
    \/ \E t \in DOMAIN frame, s \in Sessions : GetModelMeta(t, s)
    \/ \E t \in DOMAIN frame, s \in Sessions, f \in ThreadFeeds :
           RunCall(t, s, NoneVal, f, NoneVal)
    \/ \E t \in DOMAIN frame : RunReturn(t)
    \/ \E t \in DOMAIN frame, s \in Sessions : EndProfilingCall(t, s)
    \/ \E t \in DOMAIN frame : EndProfilingReturn(t)

SpecThreads == InitThreads /\ [][NextThreads]_vars

-----------------------------------------------------------------------------
(* Properties *)

\* what the engine of instance s declares: the model it loaded
Declared(s) == Get(_sess[s]).model
DeclaredInputNames(s) == {d.name : d \in Range(ModelInputs(Declared(s)))}
DeclaredOutputNames(s) == [i \in DOMAIN ModelOutputs(Declared(s)) |-> ModelOutputs(Declared(s))[i].name]
NumDeclaredInputs(s) == Len(ModelInputs(Declared(s)))

FeedSize(fr) == Cardinality(DOMAIN fr.args[2].val)
EventsOf(fr, ops) == {i \in DOMAIN fr.trace : fr.trace[i].op \in ops}
LoadOps == {"load_model", "read_bytes", "load_model_no_init"}
MetaReads == {"inputs_meta", "outputs_meta", "model_meta"}
RaisedWith(fr, ty) == fr.outcome.kind = "raise" /\ fr.outcome.val.type = ty
NoSnapshot(s) == _inputs_meta[s] = Unset /\ _outputs_meta[s] = Unset /\ _model_meta[s] = Unset

\* C1: a run whose feed has a number of entries other than the N declared inputs
\* raises ValueError carrying N and the feed's size, and makes no engine call,
\* whatever output_names and run_options are.
InputCountMismatchRejected ==
    \A t \in DOMAIN frame :
        LET fr == frame[t]
        IN  (fr.op = "run" /\ FeedSize(fr) # NumDeclaredInputs(fr.self)) =>
                /\ fr.pc = "idle"
                /\ RaisedWith(fr, "ValueError")
                /\ fr.outcome.val.val = <<NumDeclaredInputs(fr.self), FeedSize(fr)>>
                /\ fr.trace = <<>>

\* a run with more entries than declared inputs was rejected
InputCountMismatchSeen ==
    \E t \in DOMAIN frame :
        /\ frame[t].op = "run"
        /\ FeedSize(frame[t]) > NumDeclaredInputs(frame[t].self)
        /\ frame[t].args[1].type = "list"
        /\ frame[t].args[3].type = "RunOptions"
        /\ RaisedWith(frame[t], "ValueError")

\* C2: a construction from a source that is neither str, bytes nor tuple raises
\* TypeError naming the source's type, invokes no load operation and captures no
\* metadata snapshot.
UnsupportedSourceRejected ==
    \A t \in DOMAIN frame :
        LET fr == frame[t]
        IN  (fr.op = "__init__" /\ fr.args[1].type \notin {"str", "bytes", "tuple"}) =>
                /\ fr.pc = "idle"
                /\ RaisedWith(fr, "TypeError")
                /\ fr.outcome.val.val = fr.args[1].type
                /\ EventsOf(fr, LoadOps \cup MetaReads) = {}
                /\ NoSnapshot(fr.self)
                /\ lifecycle[fr.self] = "failed"

\* a construction from a list was rejected
UnsupportedSourceSeen ==
    \E t \in DOMAIN frame :
        /\ frame[t].op = "__init__"
        /\ frame[t].args[1].type = "list"
        /\ RaisedWith(frame[t], "TypeError")

\* C3: a run whose feed has exactly N entries is never rejected by the facade:
\* the engine's run is invoked with the feed unchanged, and once the call is over
\* it has returned the engine's result or raised the engine's error.
EqualCountReachesEngine ==
    \A t \in DOMAIN frame :
        LET fr == frame[t]
        IN  (fr.op = "run" /\ FeedSize(fr) = NumDeclaredInputs(fr.self)) =>
                /\ Len(fr.trace) = 1
                /\ fr.trace[1].op = "run"
                /\ fr.trace[1].args[2] = fr.args[2]
                /\ fr.pc = "idle" => (fr.outcome.kind = "return" \/ RaisedWith(fr, "EngineError"))

\* a run with N entries under undeclared names ended with the engine's error
UndeclaredNamesReachedEngine ==
    \E t \in DOMAIN frame :
        /\ frame[t].op = "run"
        /\ frame[t].pc = "idle"
        /\ FeedSize(frame[t]) = NumDeclaredInputs(frame[t].self)
        /\ DOMAIN frame[t].args[2].val # DeclaredInputNames(frame[t].self)
        /\ Len(frame[t].trace) = 1
        /\ RaisedWith(frame[t], "EngineError")

\* C4 as stated: a feed is delegated to the engine only if its key set equals the
\* set of declared input names.
DelegatedOnlyDeclaredNames ==
    \A t \in DOMAIN frame :
        (frame[t].op = "run" /\ EventsOf(frame[t], {"run"}) # {}) =>
            DOMAIN frame[t].args[2].val = DeclaredInputNames(frame[t].self)

\* C4 amended: a feed is delegated to the engine only if it has as many entries as
\* there are declared inputs.
DelegatedOnlyDeclaredCount ==
    \A t \in DOMAIN frame :
        (frame[t].op = "run" /\ EventsOf(frame[t], {"run"}) # {}) =>
            Cardinality(DOMAIN frame[t].args[2].val) = Cardinality(DeclaredInputNames(frame[t].self))

\* a feed with an undeclared name is in the engine's hands
UndeclaredNameDelegated ==
    \E t \in DOMAIN frame :
        /\ frame[t].op = "run"
        /\ frame[t].pc = "run"
        /\ ~(DOMAIN frame[t].args[2].val \subseteq DeclaredInputNames(frame[t].self))

\* C5: a run that passes the count check hands the engine the declared output
\* names in descriptor order when output_names is None or empty, and output_names
\* itself otherwise, together with the same feed and run_options.
OutputNamesResolved ==
    \A t \in DOMAIN frame :
        LET fr == frame[t]
        IN  (fr.op = "run" /\ fr.trace # <<>>) =>
                /\ fr.trace[1].args[1] =
                       IF fr.args[1].type = "NoneType" \/ Len(fr.args[1].val) = 0
                       THEN List(DeclaredOutputNames(fr.self))
                       ELSE fr.args[1]
                /\ fr.trace[1].args[2] = fr.args[2]
                /\ fr.trace[1].args[3] = fr.args[3]

\* a run with an empty output_names reached the engine with two declared names
EmptyOutputNamesDefaulted ==
    \E t \in DOMAIN frame :
        /\ frame[t].op = "run"
        /\ frame[t].args[1] = List(<<>>)
        /\ frame[t].trace # <<>>
        /\ frame[t].trace[1].args[1] = List(<<"z", "y">>)

\* an instance is Ready with the engine loaded and the three snapshots captured
ReadyComplete(s) ==
    /\ IsSet(_sess[s])
    /\ Get(_sess[s]).loaded
    /\ IsSet(_inputs_meta[s]) /\ IsSet(_outputs_meta[s]) /\ IsSet(_model_meta[s])

\* C6: an instance becomes Ready only by a construction whose load call returned;
\* a failed construction leaves it failed for good; run and end_profiling reach
\* the engine only of a Ready instance; a Ready instance has its three snapshots.
LifecycleStep ==
    /\ \A s \in Sessions :
        /\ lifecycle[s] = "failed" => lifecycle'[s] = "failed"
        /\ (lifecycle[s] # "ready" /\ lifecycle'[s] = "ready") =>
               \E t \in DOMAIN frame :
                   /\ frame[t].pc = "load" /\ frame[t].self = s
                   /\ frame'[t].trace[2].result.kind = "return"
        /\ lifecycle'[s] = "ready" => ReadyComplete(s)'
        /\ lifecycle'[s] = "failed" => NoSnapshot(s)'
    /\ \A t \in DOMAIN frame :
        EventsOf(frame'[t], {"run", "end_profiling"}) # {} => lifecycle'[frame'[t].self] = "ready"

EnginePassThrough ==
    \A t \in DOMAIN frame :
        LET fr == frame[t]
            n == Len(fr.trace)
        IN  /\ Cardinality(EventsOf(fr, LoadOps)) <= 1
            /\ fr.op = "run" => Cardinality(EventsOf(fr, {"run"})) <= 1
            /\ fr.op = "end_profiling" => Cardinality(EventsOf(fr, {"end_profiling"})) = 1
            /\ \A i \in DOMAIN fr.trace :
                   fr.trace[i].result.kind = "raise" =>
                       /\ i = n
                       /\ fr.pc = "idle"
                       /\ fr.outcome = fr.trace[i].result
                       /\ fr.op = "__init__" => NoSnapshot(fr.self)
            /\ (fr.pc = "idle" /\ fr.op \in {"run", "end_profiling"} /\ n > 0) =>
                   fr.outcome = fr.trace[n].result

\* a run ended with the error the engine's run raised
EngineRunErrorSeen ==
    \E t \in DOMAIN frame :
        /\ frame[t].op = "run"
        /\ frame[t].pc = "idle"
        /\ Len(frame[t].trace) = 1
        /\ frame[t].trace[1].result = Raised(EngineError("FAIL"))
        /\ frame[t].outcome = Raised(EngineError("FAIL"))

\* C8: once an instance is Ready no step changes its three snapshots or its
\* being Ready, and each accessor returns the snapshot captured at construction
\* (what the engine then declared) without an engine call.
SnapshotStep ==
    /\ \A s \in Sessions :
        lifecycle[s] = "ready" =>
            /\ lifecycle'[s] = "ready"
            /\ _inputs_meta'[s] = _inputs_meta[s]
            /\ _outputs_meta'[s] = _outputs_meta[s]
            /\ _model_meta'[s] = _model_meta[s]
    /\ \A t \in DOMAIN frame :
        LET fr == frame'[t]
        IN  /\ fr.op = "get_inputs" =>
                fr.trace = <<>> /\ fr.outcome = Returned(List(ModelInputs(Get(_sess'[fr.self]).model)))
            /\ fr.op = "get_outputs" =>
                fr.trace = <<>> /\ fr.outcome = Returned(List(ModelOutputs(Get(_sess'[fr.self]).model)))
            /\ fr.op = "get_modelmeta" =>
                fr.trace = <<>>
                /\ fr.outcome = Returned(Obj("ModelMetadata", ModelMeta(Get(_sess'[fr.self]).model)))

SnapshotsImmutable == [][SnapshotStep]_vars

\* get_outputs returned the two declared outputs of a session whose engine has
\* since ended profiling
AccessorAfterCalls ==
    \E t \in DOMAIN frame :
        /\ frame[t].op = "get_outputs"
        /\ frame[t].outcome = Returned(List(ModelOutputs("m1")))
        /\ Get(_sess[frame[t].self]).options.val = "profiling"
        /\ ~Get(_sess[frame[t].self]).profiling

\* C9: at most one delegation to the engine's run is in flight on an instance's
\* engine handle at any time.
RunSerialized ==
    \A s \in Sessions :
        Cardinality({t \in DOMAIN frame : frame[t].pc = "run" /\ frame[t].self = s}) <= 1

\* C10: a construction first creates the engine, with sess_options if given and
\* the engine's defaults otherwise, then invokes the one load operation of the
\* source's type: load_model with a str, read_bytes with bytes,
\* load_model_no_init with a tuple's first element; the snapshots are read only
\* after that load call has returned.
ConstructionDispatch ==
    \A t \in DOMAIN frame :
        LET fr == frame[t]
            src == fr.args[1]
            wellFormed == src.type \in {"str", "bytes"} \/ (src.type = "tuple" /\ Len(src.val) > 0)
        IN  fr.op = "__init__" =>
                /\ fr.trace[1].op = "InferenceSession"
                /\ fr.trace[1].args[1] =
                       IF fr.args[2].type = "NoneType" THEN SessionInitializer ELSE fr.args[2]
                /\ EventsOf(fr, LoadOps) \subseteq {2}
                /\ wellFormed =>
                       /\ Len(fr.trace) >= 2
                       /\ fr.trace[2].op =
                              CASE src.type = "str" -> "load_model"
                                [] src.type = "bytes" -> "read_bytes"
                                [] src.type = "tuple" -> "load_model_no_init"
                       /\ fr.trace[2].args =
                              IF src.type = "tuple" THEN <<src.val[1]>> ELSE <<src.val>>
                /\ (EventsOf(fr, MetaReads) # {} \/ ~NoSnapshot(fr.self)) =>
                       /\ fr.trace[2].result.kind = "return"
                       /\ Len(fr.trace) = 5
                       /\ <<fr.trace[3].op, fr.trace[4].op, fr.trace[5].op>> =
                              <<"inputs_meta", "outputs_meta", "model_meta">>
                       /\ ReadyComplete(fr.self)

\* a construction from bytes, with session options, captured its snapshots
BytesConstructionSeen ==
    \E t \in DOMAIN frame :
        /\ frame[t].op = "__init__"
        /\ frame[t].args[1].type = "bytes"
        /\ frame[t].args[2].type = "SessionOptions"
        /\ Len(frame[t].trace) = 5
        /\ lifecycle[frame[t].self] = "ready"

====
